---- MODULE Spec2Model ----
(***************************************************************************)
(* certmagic-s3: the FASMS (FastAPI Simple Mutex Server) locking client of *)
(* src/s3.go.  One process (one S3 value with its FASMSLocks registry),    *)
(* its callers (goroutines calling S3.Lock / S3.Unlock), the goroutines    *)
(* FASMSLocker.Lock and FASMSLocker.Unlock start, the mutex service the    *)
(* requests go to, and one owner outside this process.  Further: the       *)
(* storage methods with S3.KeyPrefix and the bucket they work on, and      *)
(* S3.Cleanup.  Last, the locking calls and Cleanup of the Redis variant   *)
(* of the module, src/unnamed/part_000, whose backend is redislock.        *)
(***************************************************************************)
EXTENDS Integers, FiniteSets, Sequences, TLC

\* ------------------------------------------------------------------ bounds
\* Number of FASMSLocker values the process creates, i.e. of S3.Lock calls; in
\* the Redis variant, of the redislock.Lock values Obtain returns.
MaxLockers == 2

\* Length of the keys the storage methods are called with, of the configured
\* prefix, and the number of objects the bucket holds.
MaxKeyLen == 1
MaxPrefixLen == 1
MaxObjects == 1

Callers == {"c1", "c2"}
\* The resources the service knows, and the keys the callers of Spec lock.
Resources == {"r1", "r2"}
Keys == {"r1"}
Lockers == 1..MaxLockers

\* ------------------------------------------------------------- vocabulary
NoLocker == 0        \* no FASMSLocker (absent map entry, no call in progress)
EmptyUuid == 0       \* the zero value "" of FASMSLocker.uuid
NoLease == -1        \* the service records no lease for a resource
ExtToken == 100      \* the uuid the service issued to the owner outside

Nil == "nil"
\* The errors of locker.lock and locker.unlock (a failed request, a status that
\* is not 200, a body that does not read or decode): one value for each.
ObtainErrors == {"lock failed"}
ReleaseErrors == {"unlock failed"}
NotReleased == "could not unlock"
\* ctx.Err() of a context that is done: the callers cancel (a deadline gives
\* context.DeadlineExceeded, which takes the same path through the code).
CtxErrors == {"context canceled"}

VARIABLES
    lease,        \* service: resource -> uuid of the live lease, or NoLease
    FASMSLocks,   \* S3.FASMSLocks: resource -> locker, or NoLocker (absent)
    nextLocker,   \* the next FASMSLocker S3.Lock allocates
    resourceName, \* FASMSLocker.resourceName of every locker
    uuid,         \* FASMSLocker.uuid of every locker
    gpc,          \* the goroutine of FASMSLocker.Lock: where it stands
    gresp,        \* the response that goroutine holds / the value it sends
    pc,           \* caller: "idle", "Lock" (in the select), "Unlock", or the
                  \* storage method it is in
    key,          \* caller: the key argument of the call in progress
    lock,         \* caller: the locker of the call in progress
    ctx,          \* caller: state of the ctx argument of the Lock in progress
    upc,          \* the goroutine of FASMSLocker.Unlock started for a caller:
                  \* "unlock" (started), "wait" (request sent), "send"
    uval,         \* the value that goroutine sends on unlockerErrChan
    ret,          \* the return of S3.Lock / S3.Unlock the last step made, if any
    holder,       \* locker -> the caller whose S3.Lock returned nil with it
                  \* and has not called S3.Unlock of that resource since
    released,     \* caller: release requests sent by its Unlock in progress
    ureq,         \* caller: the release request its Unlock in progress sent
    granted,      \* service: the lockers whose request it has answered "obtained"
    FASMSEndpoint, \* S3.FASMSEndpoint, the configured address of the service
    Prefix,       \* S3.Prefix, a string (its characters in sequence)
    objects,      \* the bucket: key of an object -> its content
    sreq,         \* caller: the request of its storage method in progress
    cleanup,      \* S3.Cleanup: where it stands, the entries it ranges over
    RedisLocks,   \* part_000, S3.RedisLocks: key -> *redislock.Lock
    rcall,        \* part_000, caller: its S3.Lock / S3.Unlock in progress
    rcleanup      \* part_000, S3.Cleanup: where it stands

vars == <<lease, FASMSLocks, nextLocker, resourceName, uuid, gpc, gresp, pc,
          key, lock, ctx, upc, uval, ret, holder, released, ureq, granted,
          FASMSEndpoint, Prefix, objects, sreq, cleanup,
          RedisLocks, rcall, rcleanup>>

\* The state of the Redis variant, and what it has apart from the lock backend
\* and the last return.
redisVars == <<RedisLocks, rcall, rcleanup>>
fasmsVars == <<FASMSLocks, nextLocker, resourceName, uuid, gpc, gresp, pc, key,
               lock, ctx, upc, uval, holder, released, ureq, FASMSEndpoint,
               Prefix, objects, sreq, cleanup>>

NoCaller == "none"
NoResource == "none"
NoResponse == [err |-> Nil, obtained |-> FALSE, uuid |-> EmptyUuid]

\* The empty string, and the content Load has read of an object that is not
\* there.
EmptyString == <<>>
NoObject == "none"
\* The bucket without an object.
EmptyBucket == [x \in {} |-> NoObject]

\* The request a storage method has made of the object store: the key the
\* method was called with, the key it passed, the content it sent or was
\* sent, the error of the answer, and whether the store has answered.
NoStorageCall == [phase |-> "none", skey |-> EmptyString, okey |-> EmptyString,
                  value |-> NoObject, err |-> Nil]
StorageRequest(k, okey, v) ==
    [phase |-> "sent", skey |-> k, okey |-> okey, value |-> v, err |-> Nil]
Answered(req, v, err) == [req EXCEPT !.phase = "answered", !.value = v, !.err = err]

\* A step that is no return of a method of S3.
NoReturn == [op |-> "none", caller |-> NoCaller, key |-> NoResource,
             locker |-> NoLocker, requests |-> 0, err |-> Nil,
             skey |-> EmptyString, okey |-> EmptyString, value |-> NoObject]
\* op(key) of caller c returned err; it worked on locker h and sent n requests
\* of release.
Return(op, c, k, h, n, err) ==
    [op |-> op, caller |-> c, key |-> k, locker |-> h, requests |-> n, err |-> err,
     skey |-> EmptyString, okey |-> EmptyString, value |-> NoObject]
\* The storage method op(k) of caller c passed the key okey to the object store
\* and returned (v, err).
StorageReturn(op, c, k, okey, v, err) ==
    [op |-> op, caller |-> c, key |-> NoResource, locker |-> NoLocker,
     requests |-> 0, err |-> err, skey |-> k, okey |-> okey, value |-> v]
NoRequest == [resource_name |-> NoResource, has_uuid |-> FALSE, uuid |-> EmptyUuid]
\* S3.Cleanup has not been called.  Once it runs: the entries still to visit
\* and those present at its start, the locker of the iteration in progress,
\* the request of release that iteration has sent, the value its goroutine
\* sends, the lockers whose Unlock the loop has called, those for which a
\* request of release was sent, and whether an Unlock has returned an error.
NoCleanup == [pc |-> "none", todo |-> {}, start |-> {}, lock |-> NoLocker,
              req |-> NoRequest, uval |-> Nil, tried |-> {}, sent |-> {},
              failed |-> FALSE]

\* A *redislock.Lock: nil, or the lock Obtain made of the key and of the token
\* it stored under it.
NilLock == [nil |-> TRUE, key |-> NoResource, value |-> EmptyUuid]
RedisLock(k, v) == [nil |-> FALSE, key |-> k, value |-> v]
\* S3.RedisLocks after Provision: make(map[string]*redislock.Lock).
NoRedisLocks == [x \in {} |-> NilLock]
\* The errors of redislock, and the one value for a failed command.
ErrNotObtained == "redislock: not obtained"
ErrLockNotHeld == "redislock: lock not held"
RedisErrors == {"redis failed"}
\* A caller that is in no locking call of the Redis variant; in one, the key,
\* the lock and the error of the call of redislock.
NoRedisCall == [pc |-> "idle", key |-> NoResource, lock |-> NilLock, err |-> Nil]
\* S3.Cleanup of the Redis variant has not been called.  Once it runs: the keys
\* still to visit and those present at its start, the lock of the iteration
\* in progress, what its Release returned, and the keys whose lock the loop
\* has called Release of.
NoRedisCleanup == [pc |-> "none", todo |-> {}, start |-> {}, lock |-> NilLock,
                   err |-> Nil, tried |-> {}]

\* The values of S3.FASMSEndpoint: an address that net/url parses and one that
\* it does not (a space in the host).  The endpoint is the one part of the
\* URLs that is not passed through url.QueryEscape.
Endpoint == "https://fasms.example"
MalformedEndpoint == "https://fasms example"
Endpoints == {Endpoint, MalformedEndpoint}
\* http.NewRequest (and http.Get, which calls it) accepts the URL built on
\* endpoint e.
UrlParses(e) == e # MalformedEndpoint

\* ----------------------------------------------------------------- service
\* The token the service issues when it grants the request of locker h: each
\* goroutine stops polling at its first grant, so one token per locker is a
\* fresh token per lease.
FreshUuid(h) == h

\* GET /api/v1/mutex?api_key=&resource_name=&ttl= : obtained iff no live lease.
ServiceObtain(r, h) ==
    IF lease[r] = NoLease
    THEN [lease |-> [lease EXCEPT ![r] = FreshUuid(h)],
          body |-> [obtained |-> TRUE, uuid |-> FreshUuid(h)]]
    ELSE [lease |-> lease, body |-> [obtained |-> FALSE, uuid |-> EmptyUuid]]

\* DELETE /api/v1/mutex?api_key=&resource_name=&uuid= : released iff the uuid
\* is the one of the live lease of that resource.
ServiceRelease(req) ==
    IF lease[req.resource_name] # NoLease /\ req.has_uuid
       /\ lease[req.resource_name] = req.uuid
    THEN [lease |-> [lease EXCEPT ![req.resource_name] = NoLease],
          body |-> [released |-> TRUE]]
    ELSE [lease |-> lease, body |-> [released |-> FALSE]]

\* ---------------------------------------------------------- FASMSLocker
\* A resource URL that names one resource for every locker.
resourceUrlShared(h) == [resource_name |-> "r1"]

\* The query parameters of the URLs (endpoint and api_key are the same in all).
resourceUrl(h) == [resource_name |-> resourceName[h]]

\* int(ttl.Seconds()) of the time.Minute S3.Lock passes.
TtlSeconds == 60

obtainMutexUrl(h) ==
    [resource_name |-> resourceUrl(h).resource_name, ttl |-> TtlSeconds]

\* A release URL that is the resource URL alone.
releaseMutexUrlByName(h) ==
    [resource_name |-> resourceUrl(h).resource_name,
     has_uuid |-> FALSE, uuid |-> EmptyUuid]

releaseMutexUrl(h) ==
    [resource_name |-> resourceUrl(h).resource_name,
     has_uuid |-> TRUE, uuid |-> uuid[h]]

\* A select that reports a context that is done as a lock that is not obtained.
CtxErrAsContention(c) == "not obtained"

\* ctx.Err() once ctx.Done() is closed.
CtxErr(c) == ctx[c]

\* The "prefix" of the configuration the runs of the locking calls are under.
ConfiguredPrefix == <<"s">>

\* The process after Provision: an empty registry, no locker, no call; the
\* bucket is empty.
InitProcess ==
    /\ FASMSLocks = [r \in Resources |-> NoLocker]
    /\ nextLocker = 1
    /\ resourceName = [h \in Lockers |-> NoResource]
    /\ uuid = [h \in Lockers |-> EmptyUuid]
    /\ gpc = [h \in Lockers |-> "none"]
    /\ gresp = [h \in Lockers |-> NoResponse]
    /\ pc = [c \in Callers |-> "idle"]
    /\ key = [c \in Callers |-> NoResource]
    /\ lock = [c \in Callers |-> NoLocker]
    /\ ctx = [c \in Callers |-> "live"]
    /\ upc = [c \in Callers |-> "none"]
    /\ uval = [c \in Callers |-> Nil]
    /\ ret = NoReturn
    /\ holder = [h \in Lockers |-> NoCaller]
    /\ released = [c \in Callers |-> 0]
    /\ ureq = [c \in Callers |-> NoRequest]
    /\ granted = {}
    /\ objects = EmptyBucket
    /\ sreq = [c \in Callers |-> NoStorageCall]
    /\ cleanup = NoCleanup
    /\ RedisLocks = NoRedisLocks
    /\ rcall = [c \in Callers |-> NoRedisCall]
    /\ rcleanup = NoRedisCleanup

Init ==
    /\ lease = [r \in Resources |-> NoLease]
    /\ FASMSEndpoint \in Endpoints
    /\ Prefix = ConfiguredPrefix
    /\ InitProcess

\* The process configured with an endpoint that parses.
ServedInit ==
    /\ Init
    /\ UrlParses(FASMSEndpoint)

\* ------------------------------------------------- FASMSLocker.Lock, s3.go

\* A loop that takes no answer for a grant.
ObtainedNever(resp) == FALSE

\* A loop that takes every decoded answer for a grant.
ObtainedAlways(resp) == TRUE

\* resp.Obtained == true
Obtained(resp) == resp.obtained = TRUE

\* A loop that takes an error of locker.lock for an answer "not obtained".
LockGoroutineStepSwallow(h, resp) ==
    IF resp.err = Nil /\ Obtained(resp)
    THEN [uuid |-> resp.uuid, send |-> TRUE, val |-> Nil]
    ELSE [uuid |-> uuid[h], send |-> FALSE, val |-> Nil]

\* One pass of the goroutine's loop after locker.lock returned (resp, err):
\* the uuid the locker has afterwards, whether the goroutine goes on to the
\* channel send (else it sleeps and polls again), and the value it sends.
LockGoroutineStep(h, resp) ==
    IF resp.err # Nil
    THEN [uuid |-> uuid[h], send |-> TRUE, val |-> resp.err]
    ELSE IF Obtained(resp)
         THEN [uuid |-> resp.uuid, send |-> TRUE, val |-> Nil]
         ELSE [uuid |-> uuid[h], send |-> FALSE, val |-> Nil]

\* The service answers the GET of locker.lock with status 200 and a JSON body:
\* locker.lock returns (&jsonResp, nil).
ServeObtain(h) ==
    /\ gpc[h] = "lock"
    /\ UrlParses(FASMSEndpoint)
    /\ LET out == ServiceObtain(obtainMutexUrl(h).resource_name, h) IN
        /\ lease' = out.lease
        /\ granted' = IF out.body.obtained THEN granted \cup {h} ELSE granted
        /\ gresp' = [gresp EXCEPT ![h] = [err |-> Nil,
                                          obtained |-> out.body.obtained,
                                          uuid |-> out.body.uuid]]
    /\ gpc' = [gpc EXCEPT ![h] = "resp"]
    /\ ret' = NoReturn
    /\ UNCHANGED <<FASMSLocks, nextLocker, resourceName, uuid, pc, key, lock,
                   ctx, upc, uval, holder, released, ureq>>
    /\ UNCHANGED <<FASMSEndpoint, Prefix, objects, sreq, cleanup>>
    /\ UNCHANGED redisVars

\* locker.lock returns (nil, err): http.Get failed, the status is not 200, or
\* the body does not decode.  The service's leases are as they were.
FailObtain(h, e) ==
    /\ gpc[h] = "lock"
    /\ gresp' = [gresp EXCEPT ![h] = [NoResponse EXCEPT !.err = e]]
    /\ gpc' = [gpc EXCEPT ![h] = "resp"]
    /\ ret' = NoReturn
    /\ UNCHANGED <<lease, FASMSLocks, nextLocker, resourceName, uuid, pc, key,
                   lock, ctx, upc, uval, holder, released, ureq, granted>>
    /\ UNCHANGED <<FASMSEndpoint, Prefix, objects, sreq, cleanup>>
    /\ UNCHANGED redisVars

\* The goroutine's loop body after locker.lock returned: an error or an
\* "obtained" answer takes it to the channel send, any other answer to the sleep.
LockGoroutine(h) ==
    /\ gpc[h] = "resp"
    /\ LET step == LockGoroutineStep(h, gresp[h]) IN
        /\ uuid' = [uuid EXCEPT ![h] = step.uuid]
        /\ gpc' = [gpc EXCEPT ![h] = IF step.send THEN "send" ELSE "sleep"]
        /\ gresp' = [gresp EXCEPT ![h] = [NoResponse EXCEPT !.err = step.val]]
    /\ ret' = NoReturn
    /\ UNCHANGED <<lease, FASMSLocks, nextLocker, resourceName, pc, key, lock,
                   ctx, upc, uval, holder, released, ureq, granted>>
    /\ UNCHANGED <<FASMSEndpoint, Prefix, objects, sreq, cleanup>>
    /\ UNCHANGED redisVars

\* time.Sleep(500 * time.Millisecond) is over: the loop calls locker.lock again.
Wake(h) ==
    /\ gpc[h] = "sleep"
    /\ gpc' = [gpc EXCEPT ![h] = "lock"]
    /\ ret' = NoReturn
    /\ UNCHANGED <<lease, FASMSLocks, nextLocker, resourceName, uuid, gresp, pc,
                   key, lock, ctx, upc, uval, holder, released, ureq, granted>>
    /\ UNCHANGED <<FASMSEndpoint, Prefix, objects, sreq, cleanup>>
    /\ UNCHANGED redisVars

\* ----------------------------------------------------------- S3.Lock, s3.go
\* s3.FASMSLocks[key] = lock, after lock.Lock returned err.
LockRegistry(reg, k, h, err) == [reg EXCEPT ![k] = h]

\* S3.Lock up to the select of FASMSLocker.Lock: a new locker, its goroutine.
\* No method is called once Cleanup has been.
S3Lock(c, r) ==
    /\ cleanup.pc = "none"
    /\ pc[c] = "idle"
    /\ nextLocker <= MaxLockers
    /\ LET h == nextLocker IN
        /\ resourceName' = [resourceName EXCEPT ![h] = r]
        /\ uuid' = [uuid EXCEPT ![h] = EmptyUuid]
        /\ gpc' = [gpc EXCEPT ![h] = "lock"]
        /\ lock' = [lock EXCEPT ![c] = h]
    /\ nextLocker' = nextLocker + 1
    /\ pc' = [pc EXCEPT ![c] = "Lock"]
    /\ key' = [key EXCEPT ![c] = r]
    /\ ctx' = [ctx EXCEPT ![c] = "live"]
    /\ ret' = NoReturn
    /\ UNCHANGED <<lease, FASMSLocks, gresp, upc, uval, holder, released, ureq, granted>>
    /\ UNCHANGED <<FASMSEndpoint, Prefix, objects, sreq, cleanup>>
    /\ UNCHANGED redisVars

\* The caller's context is cancelled.
CtxDone(c, e) ==
    /\ pc[c] = "Lock"
    /\ ctx[c] = "live"
    /\ ctx' = [ctx EXCEPT ![c] = e]
    /\ ret' = NoReturn
    /\ UNCHANGED <<lease, FASMSLocks, nextLocker, resourceName, uuid, gpc,
                   gresp, pc, key, lock, upc, uval, holder, released, ureq, granted>>
    /\ UNCHANGED <<FASMSEndpoint, Prefix, objects, sreq, cleanup>>
    /\ UNCHANGED redisVars

\* S3.Lock from the return of lock.Lock with err to its own return.
S3LockReturn(c, err) ==
    /\ FASMSLocks' = LockRegistry(FASMSLocks, key[c], lock[c], err)
    /\ ret' = Return("Lock", c, key[c], lock[c], 0, err)
    /\ holder' = [holder EXCEPT ![lock[c]] = IF err = Nil THEN c ELSE @]
    /\ pc' = [pc EXCEPT ![c] = "idle"]
    /\ lock' = [lock EXCEPT ![c] = NoLocker]
    /\ key' = [key EXCEPT ![c] = NoResource]
    /\ ctx' = [ctx EXCEPT ![c] = "live"]
    /\ UNCHANGED redisVars

\* select: case lockErr := <-lockerErrChan
LockSelectChan(c) ==
    /\ pc[c] = "Lock"
    /\ gpc[lock[c]] = "send"
    /\ gpc' = [gpc EXCEPT ![lock[c]] = "done"]
    /\ gresp' = [gresp EXCEPT ![lock[c]] = NoResponse]
    /\ S3LockReturn(c, gresp[lock[c]].err)
    /\ UNCHANGED <<lease, nextLocker, resourceName, uuid, upc, uval, released, ureq, granted>>
    /\ UNCHANGED <<FASMSEndpoint, Prefix, objects, sreq, cleanup>>

\* select: case <-ctx.Done()
LockSelectDone(c) ==
    /\ pc[c] = "Lock"
    /\ ctx[c] # "live"
    /\ S3LockReturn(c, CtxErr(c))
    /\ UNCHANGED <<lease, nextLocker, resourceName, uuid, gpc, gresp, upc, uval,
                   released, ureq, granted>>
    /\ UNCHANGED <<FASMSEndpoint, Prefix, objects, sreq, cleanup>>

\* --------------------------------------- S3.Unlock, FASMSLocker.Unlock, s3.go
\* lock, exists := s3.FASMSLocks[key]
UnlockExists(reg, k) == reg[k] # NoLocker

\* An Unlock that reports a key it does not hold.
UnlockAbsentNotHeld == "not held"

\* The return of S3.Unlock when the registry has no entry for the key.
UnlockAbsentReturn == Nil

\* An Unlock that keeps the entry when the release failed.
UnlockRegistryOnSuccess(reg, k, err) ==
    IF err = Nil THEN [reg EXCEPT ![k] = NoLocker] ELSE reg

\* delete(s3.FASMSLocks, key), after lock.Unlock returned err.
UnlockRegistry(reg, k, err) == [reg EXCEPT ![k] = NoLocker]

\* What S3.Unlock returns after lock.Unlock returned err.
UnlockReturn(err) == IF err # Nil THEN err ELSE Nil

S3Unlock(c, r) ==
    /\ cleanup.pc = "none"
    /\ pc[c] = "idle"
    /\ holder' = [h \in Lockers |->
                    IF holder[h] = c /\ resourceName[h] = r
                    THEN NoCaller ELSE holder[h]]
    /\ IF UnlockExists(FASMSLocks, r)
       THEN /\ pc' = [pc EXCEPT ![c] = "Unlock"]
            /\ key' = [key EXCEPT ![c] = r]
            /\ lock' = [lock EXCEPT ![c] = FASMSLocks[r]]
            /\ upc' = [upc EXCEPT ![c] = "unlock"]
            /\ ret' = NoReturn
       ELSE /\ ret' = Return("Unlock", c, r, NoLocker, 0, UnlockAbsentReturn)
            /\ UNCHANGED <<pc, key, lock, upc, ureq, granted>>
    /\ UNCHANGED <<lease, FASMSLocks, nextLocker, resourceName, uuid, gpc,
                   gresp, ctx, uval, released, ureq, granted>>
    /\ UNCHANGED <<FASMSEndpoint, Prefix, objects, sreq, cleanup>>
    /\ UNCHANGED redisVars

\* What the goroutine of FASMSLocker.Unlock sends for a decoded response.
UnlockGoroutineVal(body) == IF body.released = TRUE THEN Nil ELSE NotReleased

\* locker.unlock builds the request of release: http.NewRequest on
\* locker.releaseMutexUrl() reads locker.uuid as it is now; client.Do sends
\* the request and waits for the answer.
UnlockRequest(c) ==
    /\ upc[c] = "unlock"
    /\ UrlParses(FASMSEndpoint)
    /\ upc' = [upc EXCEPT ![c] = "wait"]
    /\ released' = [released EXCEPT ![c] = @ + 1]
    /\ ureq' = [ureq EXCEPT ![c] = releaseMutexUrl(lock[c])]
    /\ ret' = NoReturn
    /\ UNCHANGED <<lease, FASMSLocks, nextLocker, resourceName, uuid, gpc,
                   gresp, pc, key, lock, ctx, uval, holder, granted,
                   FASMSEndpoint, Prefix, objects, sreq, cleanup>>
    /\ UNCHANGED redisVars

\* http.NewRequest returns an error: locker.unlock returns it and no request
\* is sent; the goroutine reaches its channel send.
FailNewRequest(c, e) ==
    /\ upc[c] = "unlock"
    /\ ~UrlParses(FASMSEndpoint)
    /\ uval' = [uval EXCEPT ![c] = e]
    /\ upc' = [upc EXCEPT ![c] = "send"]
    /\ ret' = NoReturn
    /\ UNCHANGED <<lease, FASMSLocks, nextLocker, resourceName, uuid, gpc,
                   gresp, pc, key, lock, ctx, holder, released, ureq, granted,
                   FASMSEndpoint, Prefix, objects, sreq, cleanup>>
    /\ UNCHANGED redisVars

\* The service answers the DELETE that locker.unlock sent with 200 and a JSON
\* body; the goroutine reaches its channel send.
ServeRelease(c) ==
    /\ upc[c] = "wait"
    /\ LET out == ServiceRelease(ureq[c]) IN
        /\ lease' = out.lease
        /\ uval' = [uval EXCEPT ![c] = UnlockGoroutineVal(out.body)]
    /\ upc' = [upc EXCEPT ![c] = "send"]
    /\ ret' = NoReturn
    /\ UNCHANGED <<FASMSLocks, nextLocker, resourceName, uuid, gpc, gresp, pc,
                   key, lock, ctx, holder, released, ureq, granted>>
    /\ UNCHANGED <<FASMSEndpoint, Prefix, objects, sreq, cleanup>>
    /\ UNCHANGED redisVars

\* client.Do returns an error, the status is not 200 or the body does not
\* decode: locker.unlock returns an error; the service's leases are as they
\* were.
FailRelease(c, e) ==
    /\ upc[c] = "wait"
    /\ uval' = [uval EXCEPT ![c] = e]
    /\ upc' = [upc EXCEPT ![c] = "send"]
    /\ ret' = NoReturn
    /\ UNCHANGED <<lease, FASMSLocks, nextLocker, resourceName, uuid, gpc,
                   gresp, pc, key, lock, ctx, holder, released, ureq, granted>>
    /\ UNCHANGED <<FASMSEndpoint, Prefix, objects, sreq, cleanup>>
    /\ UNCHANGED redisVars

\* select: case lockErr := <-unlockerErrChan; then delete and return.  S3.Unlock
\* passes context.Background(), whose Done case is never ready.
UnlockSelectChan(c) ==
    /\ pc[c] = "Unlock"
    /\ upc[c] = "send"
    /\ FASMSLocks' = UnlockRegistry(FASMSLocks, key[c], uval[c])
    /\ ret' = Return("Unlock", c, key[c], lock[c], released[c],
                   UnlockReturn(uval[c]))
    /\ pc' = [pc EXCEPT ![c] = "idle"]
    /\ key' = [key EXCEPT ![c] = NoResource]
    /\ lock' = [lock EXCEPT ![c] = NoLocker]
    /\ upc' = [upc EXCEPT ![c] = "none"]
    /\ uval' = [uval EXCEPT ![c] = Nil]
    /\ released' = [released EXCEPT ![c] = 0]
    /\ ureq' = [ureq EXCEPT ![c] = NoRequest]
    /\ UNCHANGED <<lease, nextLocker, resourceName, uuid, gpc, gresp, ctx,
                   holder, granted>>
    /\ UNCHANGED <<FASMSEndpoint, Prefix, objects, sreq, cleanup>>
    /\ UNCHANGED redisVars

\* ------------------------------------ s3.FASMSLocks, access by access, s3.go
\* S3.Lock and S3.Unlock with every access of the map s3.FASMSLocks as a step
\* that begins (the caller is inside the map operation) and a step that ends.
\* The code holds no lock around them.
InMapWrite(c) == pc[c] \in {"mapassign", "mapdelete"}
InMapRead(c) == pc[c] = "mapaccess"

\* The select of FASMSLocker.Lock receives; S3.Lock begins
\* s3.FASMSLocks[key] = lock.
MapLockSelect(c) ==
    /\ pc[c] = "Lock"
    /\ gpc[lock[c]] = "send"
    /\ gpc' = [gpc EXCEPT ![lock[c]] = "done"]
    /\ pc' = [pc EXCEPT ![c] = "mapassign"]
    /\ ret' = NoReturn
    /\ UNCHANGED <<lease, FASMSLocks, nextLocker, resourceName, uuid, gresp, key,
                   lock, ctx, upc, uval, holder, released, ureq, granted,
                   FASMSEndpoint, Prefix, objects, sreq, cleanup>>
    /\ UNCHANGED redisVars

\* The assignment ends; S3.Lock returns.
MapLockAssigned(c) ==
    /\ pc[c] = "mapassign"
    /\ gresp' = [gresp EXCEPT ![lock[c]] = NoResponse]
    /\ S3LockReturn(c, gresp[lock[c]].err)
    /\ UNCHANGED <<lease, nextLocker, resourceName, uuid, gpc, upc, uval,
                   released, ureq, granted, FASMSEndpoint, Prefix, objects, sreq, cleanup>>

\* S3.Unlock begins lock, exists := s3.FASMSLocks[key].
MapUnlock(c, r) ==
    /\ cleanup.pc = "none"
    /\ pc[c] = "idle"
    /\ pc' = [pc EXCEPT ![c] = "mapaccess"]
    /\ key' = [key EXCEPT ![c] = r]
    /\ ret' = NoReturn
    /\ UNCHANGED <<lease, FASMSLocks, nextLocker, resourceName, uuid, gpc, gresp,
                   lock, ctx, upc, uval, holder, released, ureq, granted,
                   FASMSEndpoint, Prefix, objects, sreq, cleanup>>
    /\ UNCHANGED redisVars

\* The lookup ends: lock.Unlock starts its goroutine, or S3.Unlock returns nil.
MapUnlockLooked(c) ==
    /\ pc[c] = "mapaccess"
    /\ holder' = [h \in Lockers |->
                    IF holder[h] = c /\ resourceName[h] = key[c]
                    THEN NoCaller ELSE holder[h]]
    /\ IF UnlockExists(FASMSLocks, key[c])
       THEN /\ pc' = [pc EXCEPT ![c] = "Unlock"]
            /\ lock' = [lock EXCEPT ![c] = FASMSLocks[key[c]]]
            /\ upc' = [upc EXCEPT ![c] = "unlock"]
            /\ ret' = NoReturn
            /\ UNCHANGED key
       ELSE /\ pc' = [pc EXCEPT ![c] = "idle"]
            /\ key' = [key EXCEPT ![c] = NoResource]
            /\ ret' = Return("Unlock", c, key[c], NoLocker, 0, UnlockAbsentReturn)
            /\ UNCHANGED <<lock, upc>>
    /\ UNCHANGED <<lease, FASMSLocks, nextLocker, resourceName, uuid, gpc, gresp,
                   ctx, uval, released, ureq, granted, FASMSEndpoint, Prefix,
                   objects, sreq, cleanup>>
    /\ UNCHANGED redisVars

\* The select of FASMSLocker.Unlock receives; S3.Unlock begins
\* delete(s3.FASMSLocks, key).
MapUnlockSelect(c) ==
    /\ pc[c] = "Unlock"
    /\ upc[c] = "send"
    /\ pc' = [pc EXCEPT ![c] = "mapdelete"]
    /\ ret' = NoReturn
    /\ UNCHANGED <<lease, FASMSLocks, nextLocker, resourceName, uuid, gpc, gresp,
                   key, lock, ctx, upc, uval, holder, released, ureq, granted,
                   FASMSEndpoint, Prefix, objects, sreq, cleanup>>
    /\ UNCHANGED redisVars

\* The delete ends; S3.Unlock returns.
MapUnlockDeleted(c) ==
    /\ pc[c] = "mapdelete"
    /\ FASMSLocks' = UnlockRegistry(FASMSLocks, key[c], uval[c])
    /\ ret' = Return("Unlock", c, key[c], lock[c], released[c],
                     UnlockReturn(uval[c]))
    /\ pc' = [pc EXCEPT ![c] = "idle"]
    /\ key' = [key EXCEPT ![c] = NoResource]
    /\ lock' = [lock EXCEPT ![c] = NoLocker]
    /\ upc' = [upc EXCEPT ![c] = "none"]
    /\ uval' = [uval EXCEPT ![c] = Nil]
    /\ released' = [released EXCEPT ![c] = 0]
    /\ ureq' = [ureq EXCEPT ![c] = NoRequest]
    /\ UNCHANGED <<lease, nextLocker, resourceName, uuid, gpc, gresp, ctx,
                   holder, granted, FASMSEndpoint, Prefix, objects, sreq, cleanup>>
    /\ UNCHANGED redisVars

\* Two goroutines are inside the map, one of them writing: the runtime may
\* notice and throw "fatal error: concurrent map writes" (or "concurrent map
\* read and map write"), which ends the process with its goroutines; when it
\* does not notice, the accesses end as above.
ConcurrentMapFatal ==
    /\ \E c1 \in Callers, c2 \in Callers :
         /\ c1 # c2
         /\ InMapWrite(c1)
         /\ InMapWrite(c2) \/ InMapRead(c2)
    /\ pc' = [c \in Callers |-> "fatal"]
    /\ gpc' = [h \in Lockers |-> IF gpc[h] = "none" THEN "none" ELSE "done"]
    /\ upc' = [c \in Callers |-> "none"]
    /\ ret' = NoReturn
    /\ UNCHANGED <<lease, FASMSLocks, nextLocker, resourceName, uuid, gresp, key,
                   lock, ctx, uval, holder, released, ureq, granted,
                   FASMSEndpoint, Prefix, objects, sreq, cleanup>>
    /\ UNCHANGED redisVars

\* --------------------------------------------------------- S3.Cleanup, s3.go
\* Caddy calls Cleanup when it unloads the module: no caller is inside a method
\* of S3 by then and none calls one afterwards; goroutines still run.

\* for _, lock := range s3.FASMSLocks: the entries the loop is over.
CleanupEntries(reg) == {r \in Resources : reg[r] # NoLocker}

\* _ = lock.Unlock(context.Background()): the loop goes on with the entries
\* that are left, whatever Unlock returned.
CleanupRest(todo, err) == todo

S3Cleanup ==
    /\ cleanup.pc = "none"
    /\ \A c \in Callers : pc[c] = "idle"
    /\ cleanup' = [NoCleanup EXCEPT !.pc = "range",
                                    !.todo = CleanupEntries(FASMSLocks),
                                    !.start = CleanupEntries(FASMSLocks)]
    /\ ret' = NoReturn
    /\ UNCHANGED <<lease, FASMSLocks, nextLocker, resourceName, uuid, gpc, gresp,
                   pc, key, lock, ctx, upc, uval, holder, released, ureq, granted,
                   FASMSEndpoint, Prefix, objects, sreq>>
    /\ UNCHANGED redisVars

\* One iteration: lock.Unlock(context.Background()) starts its goroutine.
CleanupUnlock(r) ==
    /\ cleanup.pc = "range"
    /\ r \in cleanup.todo
    /\ cleanup' = [cleanup EXCEPT !.pc = "unlock",
                                  !.todo = @ \ {r},
                                  !.lock = FASMSLocks[r],
                                  !.tried = @ \cup {FASMSLocks[r]}]
    /\ ret' = NoReturn
    /\ UNCHANGED <<lease, FASMSLocks, nextLocker, resourceName, uuid, gpc, gresp,
                   pc, key, lock, ctx, upc, uval, holder, released, ureq, granted,
                   FASMSEndpoint, Prefix, objects, sreq>>
    /\ UNCHANGED redisVars

\* locker.unlock of that goroutine builds the request of release from
\* locker.uuid as it is now and sends it.
CleanupRequest ==
    /\ cleanup.pc = "unlock"
    /\ UrlParses(FASMSEndpoint)
    /\ cleanup' = [cleanup EXCEPT !.pc = "wait",
                                  !.req = releaseMutexUrl(cleanup.lock),
                                  !.sent = @ \cup {cleanup.lock}]
    /\ ret' = NoReturn
    /\ UNCHANGED <<lease, FASMSLocks, nextLocker, resourceName, uuid, gpc, gresp,
                   pc, key, lock, ctx, upc, uval, holder, released, ureq, granted,
                   FASMSEndpoint, Prefix, objects, sreq>>
    /\ UNCHANGED redisVars

\* http.NewRequest of that goroutine returns an error: no request is sent.
CleanupFailNewRequest(e) ==
    /\ cleanup.pc = "unlock"
    /\ ~UrlParses(FASMSEndpoint)
    /\ cleanup' = [cleanup EXCEPT !.pc = "send",
                                  !.uval = e,
                                  !.failed = TRUE]
    /\ ret' = NoReturn
    /\ UNCHANGED <<lease, FASMSLocks, nextLocker, resourceName, uuid, gpc, gresp,
                   pc, key, lock, ctx, upc, uval, holder, released, ureq, granted,
                   FASMSEndpoint, Prefix, objects, sreq>>
    /\ UNCHANGED redisVars

\* The service answers the DELETE of that goroutine.
CleanupServeRelease ==
    /\ cleanup.pc = "wait"
    /\ LET out == ServiceRelease(cleanup.req) IN
        /\ lease' = out.lease
        /\ cleanup' = [cleanup EXCEPT !.pc = "send",
                                      !.uval = UnlockGoroutineVal(out.body)]
    /\ ret' = NoReturn
    /\ UNCHANGED <<FASMSLocks, nextLocker, resourceName, uuid, gpc, gresp,
                   pc, key, lock, ctx, upc, uval, holder, released, ureq, granted,
                   FASMSEndpoint, Prefix, objects, sreq>>
    /\ UNCHANGED redisVars

\* client.Do of that goroutine returns an error, the status is not 200 or the
\* body does not decode.
CleanupFailRelease(e) ==
    /\ cleanup.pc = "wait"
    /\ cleanup' = [cleanup EXCEPT !.pc = "send",
                                  !.uval = e,
                                  !.failed = TRUE]
    /\ ret' = NoReturn
    /\ UNCHANGED <<lease, FASMSLocks, nextLocker, resourceName, uuid, gpc, gresp,
                   pc, key, lock, ctx, upc, uval, holder, released, ureq, granted,
                   FASMSEndpoint, Prefix, objects, sreq>>
    /\ UNCHANGED redisVars

\* lock.Unlock returns what the goroutine sent; the loop drops it.
CleanupUnlockReturn ==
    /\ cleanup.pc = "send"
    /\ cleanup' = [cleanup EXCEPT !.pc = "range",
                                  !.todo = CleanupRest(@, cleanup.uval),
                                  !.lock = NoLocker,
                                  !.req = NoRequest,
                                  !.uval = Nil]
    /\ ret' = NoReturn
    /\ UNCHANGED <<lease, FASMSLocks, nextLocker, resourceName, uuid, gpc, gresp,
                   pc, key, lock, ctx, upc, uval, holder, released, ureq, granted,
                   FASMSEndpoint, Prefix, objects, sreq>>
    /\ UNCHANGED redisVars

\* The range is over: return nil.
CleanupReturn ==
    /\ cleanup.pc = "range"
    /\ cleanup.todo = {}
    /\ cleanup' = [cleanup EXCEPT !.pc = "done"]
    /\ ret' = Return("Cleanup", NoCaller, NoResource, NoLocker,
                     Cardinality(cleanup.sent), Nil)
    /\ UNCHANGED <<lease, FASMSLocks, nextLocker, resourceName, uuid, gpc, gresp,
                   pc, key, lock, ctx, upc, uval, holder, released, ureq, granted,
                   FASMSEndpoint, Prefix, objects, sreq>>
    /\ UNCHANGED redisVars

\* ------------------------------------------------------- S3.KeyPrefix, s3.go
\* Strings are the sequences of their characters.
Chars == {"s", "/"}
Strings(n) == UNION {[1..m -> Chars] : m \in 0..n}
StorageKeys == Strings(MaxKeyLen)
Prefixes == Strings(MaxPrefixLen)
Values == {"v1", "v2"}
\* The content a caller stores where each caller stores a content of its own.
Content(c) == IF c = "c1" THEN "v1" ELSE "v2"

\* strings.HasPrefix(s, prefix)
HasPrefix(s, prefix) ==
    /\ Len(s) >= Len(prefix)
    /\ SubSeq(s, 1, Len(prefix)) = prefix

\* strings.Join([]string{a, b}, "/")
Join(a, b) == a \o <<"/">> \o b

\* A KeyPrefix that joins whatever the key starts with.
KeyPrefixAlwaysJoin(p, k) == Join(p, k)

\* S3.KeyPrefix(k) of an S3 whose Prefix is p.
KeyPrefix(p, k) == IF HasPrefix(k, p) THEN k ELSE Join(p, k)

\* ------------------------------------------------------------- object store
\* The bucket maps the key of an object to its content.
NoSuchKey == "NoSuchKey"

PutObject(bucket, okey, obj) ==
    [x \in DOMAIN bucket \cup {okey} |-> IF x = okey THEN obj ELSE bucket[x]]
RemoveObject(bucket, okey) ==
    [x \in DOMAIN bucket \ {okey} |-> bucket[x]]
\* GetObject and ioutil.ReadAll of what it returned.
GetObject(bucket, okey) ==
    IF okey \in DOMAIN bucket
    THEN [value |-> bucket[okey], err |-> Nil]
    ELSE [value |-> NoObject, err |-> NoSuchKey]
StatObject(bucket, okey) ==
    IF okey \in DOMAIN bucket
    THEN [key |-> okey, err |-> Nil]
    ELSE [key |-> EmptyString, err |-> NoSuchKey]

\* ------------------------------------------------- the storage methods, s3.go
\* key = s3.KeyPrefix(key), the first statement of each method.
StoreKey(k) == KeyPrefix(Prefix, k)
\* A Load that passes the key as it got it.
LoadKeyAsGiven(k) == k
LoadKey(k) == KeyPrefix(Prefix, k)
DeleteKey(k) == KeyPrefix(Prefix, k)
ExistsKey(k) == KeyPrefix(Prefix, k)
StatKey(k) == KeyPrefix(Prefix, k)

\* S3.KeyPrefix called by itself.
S3KeyPrefix(c, k) ==
    /\ pc[c] = "idle"
    /\ ret' = StorageReturn("KeyPrefix", c, k, KeyPrefix(Prefix, k), NoObject, Nil)
    /\ UNCHANGED <<lease, FASMSLocks, nextLocker, resourceName, uuid, gpc, gresp,
                   pc, key, lock, ctx, upc, uval, holder, released, ureq, granted,
                   FASMSEndpoint, Prefix, objects, sreq, cleanup>>
    /\ UNCHANGED redisVars

\* S3.Store(k, v): the key is prefixed and PutObject sends the object.
S3Store(c, k, v) ==
    /\ pc[c] = "idle"
    /\ pc' = [pc EXCEPT ![c] = "Store"]
    /\ sreq' = [sreq EXCEPT ![c] = StorageRequest(k, StoreKey(k), v)]
    /\ ret' = NoReturn
    /\ UNCHANGED objects
    /\ UNCHANGED <<lease, FASMSLocks, nextLocker, resourceName, uuid, gpc, gresp,
                   key, lock, ctx, upc, uval, holder, released, ureq, granted,
                   FASMSEndpoint, Prefix, cleanup>>
    /\ UNCHANGED redisVars

\* The object store puts the object of that PutObject and answers.
StorePutObject(c) ==
    /\ pc[c] = "Store"
    /\ sreq[c].phase = "sent"
    /\ \/ sreq[c].okey \in DOMAIN objects
       \/ Cardinality(DOMAIN objects) < MaxObjects
    /\ objects' = PutObject(objects, sreq[c].okey, sreq[c].value)
    /\ sreq' = [sreq EXCEPT ![c] = Answered(@, @.value, Nil)]
    /\ ret' = NoReturn
    /\ UNCHANGED pc
    /\ UNCHANGED <<lease, FASMSLocks, nextLocker, resourceName, uuid, gpc, gresp,
                   key, lock, ctx, upc, uval, holder, released, ureq, granted,
                   FASMSEndpoint, Prefix, cleanup>>
    /\ UNCHANGED redisVars

\* PutObject returns: return err.
StoreReturn(c) ==
    /\ pc[c] = "Store"
    /\ sreq[c].phase = "answered"
    /\ ret' = StorageReturn("Store", c, sreq[c].skey, sreq[c].okey,
                            sreq[c].value, sreq[c].err)
    /\ pc' = [pc EXCEPT ![c] = "idle"]
    /\ sreq' = [sreq EXCEPT ![c] = NoStorageCall]
    /\ UNCHANGED objects
    /\ UNCHANGED <<lease, FASMSLocks, nextLocker, resourceName, uuid, gpc, gresp,
                   key, lock, ctx, upc, uval, holder, released, ureq, granted,
                   FASMSEndpoint, Prefix, cleanup>>
    /\ UNCHANGED redisVars

\* S3.Load(k): the key is prefixed; GetObject and ioutil.ReadAll send the GET.
S3Load(c, k) ==
    /\ pc[c] = "idle"
    /\ pc' = [pc EXCEPT ![c] = "Load"]
    /\ sreq' = [sreq EXCEPT ![c] = StorageRequest(k, LoadKey(k), NoObject)]
    /\ ret' = NoReturn
    /\ UNCHANGED objects
    /\ UNCHANGED <<lease, FASMSLocks, nextLocker, resourceName, uuid, gpc, gresp,
                   key, lock, ctx, upc, uval, holder, released, ureq, granted,
                   FASMSEndpoint, Prefix, cleanup>>
    /\ UNCHANGED redisVars

\* The object store answers that GET with the content it holds now.
LoadGetObject(c) ==
    /\ pc[c] = "Load"
    /\ sreq[c].phase = "sent"
    /\ LET got == GetObject(objects, sreq[c].okey) IN
        sreq' = [sreq EXCEPT ![c] = Answered(@, got.value, got.err)]
    /\ ret' = NoReturn
    /\ UNCHANGED pc
    /\ UNCHANGED <<lease, FASMSLocks, nextLocker, resourceName, uuid, gpc, gresp,
                   key, lock, ctx, upc, uval, holder, released, ureq, granted,
                   FASMSEndpoint, Prefix, objects, cleanup>>
    /\ UNCHANGED redisVars

\* ioutil.ReadAll returns: return content, err.
LoadReturn(c) ==
    /\ pc[c] = "Load"
    /\ sreq[c].phase = "answered"
    /\ ret' = StorageReturn("Load", c, sreq[c].skey, sreq[c].okey,
                            sreq[c].value, sreq[c].err)
    /\ pc' = [pc EXCEPT ![c] = "idle"]
    /\ sreq' = [sreq EXCEPT ![c] = NoStorageCall]
    /\ UNCHANGED objects
    /\ UNCHANGED <<lease, FASMSLocks, nextLocker, resourceName, uuid, gpc, gresp,
                   key, lock, ctx, upc, uval, holder, released, ureq, granted,
                   FASMSEndpoint, Prefix, cleanup>>
    /\ UNCHANGED redisVars

\* S3.Delete(k): the key is prefixed and RemoveObject sends the request.
S3Delete(c, k) ==
    /\ pc[c] = "idle"
    /\ pc' = [pc EXCEPT ![c] = "Delete"]
    /\ sreq' = [sreq EXCEPT ![c] = StorageRequest(k, DeleteKey(k), NoObject)]
    /\ ret' = NoReturn
    /\ UNCHANGED objects
    /\ UNCHANGED <<lease, FASMSLocks, nextLocker, resourceName, uuid, gpc, gresp,
                   key, lock, ctx, upc, uval, holder, released, ureq, granted,
                   FASMSEndpoint, Prefix, cleanup>>
    /\ UNCHANGED redisVars

\* The object store removes the object of that RemoveObject and answers.
DeleteRemoveObject(c) ==
    /\ pc[c] = "Delete"
    /\ sreq[c].phase = "sent"
    /\ objects' = RemoveObject(objects, sreq[c].okey)
    /\ sreq' = [sreq EXCEPT ![c] = Answered(@, NoObject, Nil)]
    /\ ret' = NoReturn
    /\ UNCHANGED pc
    /\ UNCHANGED <<lease, FASMSLocks, nextLocker, resourceName, uuid, gpc, gresp,
                   key, lock, ctx, upc, uval, holder, released, ureq, granted,
                   FASMSEndpoint, Prefix, cleanup>>
    /\ UNCHANGED redisVars

\* RemoveObject returns: return err.
DeleteReturn(c) ==
    /\ pc[c] = "Delete"
    /\ sreq[c].phase = "answered"
    /\ ret' = StorageReturn("Delete", c, sreq[c].skey, sreq[c].okey,
                            NoObject, sreq[c].err)
    /\ pc' = [pc EXCEPT ![c] = "idle"]
    /\ sreq' = [sreq EXCEPT ![c] = NoStorageCall]
    /\ UNCHANGED objects
    /\ UNCHANGED <<lease, FASMSLocks, nextLocker, resourceName, uuid, gpc, gresp,
                   key, lock, ctx, upc, uval, holder, released, ureq, granted,
                   FASMSEndpoint, Prefix, cleanup>>
    /\ UNCHANGED redisVars

\* S3.Exists(k): the key is prefixed and StatObject sends the request.
S3Exists(c, k) ==
    /\ pc[c] = "idle"
    /\ pc' = [pc EXCEPT ![c] = "Exists"]
    /\ sreq' = [sreq EXCEPT ![c] = StorageRequest(k, ExistsKey(k), NoObject)]
    /\ ret' = NoReturn
    /\ UNCHANGED objects
    /\ UNCHANGED <<lease, FASMSLocks, nextLocker, resourceName, uuid, gpc, gresp,
                   key, lock, ctx, upc, uval, holder, released, ureq, granted,
                   FASMSEndpoint, Prefix, cleanup>>
    /\ UNCHANGED redisVars

\* The object store answers that StatObject for the bucket as it is now.
ExistsStatObject(c) ==
    /\ pc[c] = "Exists"
    /\ sreq[c].phase = "sent"
    /\ LET stat == StatObject(objects, sreq[c].okey) IN
        sreq' = [sreq EXCEPT ![c] = Answered(@, NoObject, stat.err)]
    /\ ret' = NoReturn
    /\ UNCHANGED pc
    /\ UNCHANGED <<lease, FASMSLocks, nextLocker, resourceName, uuid, gpc, gresp,
                   key, lock, ctx, upc, uval, holder, released, ureq, granted,
                   FASMSEndpoint, Prefix, objects, cleanup>>
    /\ UNCHANGED redisVars

\* StatObject returns: return err == nil.
ExistsReturn(c) ==
    /\ pc[c] = "Exists"
    /\ sreq[c].phase = "answered"
    /\ ret' = StorageReturn("Exists", c, sreq[c].skey, sreq[c].okey,
                            IF sreq[c].err = Nil THEN "true" ELSE "false", Nil)
    /\ pc' = [pc EXCEPT ![c] = "idle"]
    /\ sreq' = [sreq EXCEPT ![c] = NoStorageCall]
    /\ UNCHANGED objects
    /\ UNCHANGED <<lease, FASMSLocks, nextLocker, resourceName, uuid, gpc, gresp,
                   key, lock, ctx, upc, uval, holder, released, ureq, granted,
                   FASMSEndpoint, Prefix, cleanup>>
    /\ UNCHANGED redisVars

\* S3.Stat(k): the key is prefixed and StatObject sends the request.
S3Stat(c, k) ==
    /\ pc[c] = "idle"
    /\ pc' = [pc EXCEPT ![c] = "Stat"]
    /\ sreq' = [sreq EXCEPT ![c] = StorageRequest(k, StatKey(k), NoObject)]
    /\ ret' = NoReturn
    /\ UNCHANGED objects
    /\ UNCHANGED <<lease, FASMSLocks, nextLocker, resourceName, uuid, gpc, gresp,
                   key, lock, ctx, upc, uval, holder, released, ureq, granted,
                   FASMSEndpoint, Prefix, cleanup>>
    /\ UNCHANGED redisVars

\* The object store answers that StatObject for the bucket as it is now.
StatStatObject(c) ==
    /\ pc[c] = "Stat"
    /\ sreq[c].phase = "sent"
    /\ LET stat == StatObject(objects, sreq[c].okey) IN
        sreq' = [sreq EXCEPT ![c] = Answered(@, NoObject, stat.err)]
    /\ ret' = NoReturn
    /\ UNCHANGED pc
    /\ UNCHANGED <<lease, FASMSLocks, nextLocker, resourceName, uuid, gpc, gresp,
                   key, lock, ctx, upc, uval, holder, released, ureq, granted,
                   FASMSEndpoint, Prefix, objects, cleanup>>
    /\ UNCHANGED redisVars

\* StatObject returns: the KeyInfo of the object, or the zero KeyInfo and a
\* nil error.
StatReturn(c) ==
    /\ pc[c] = "Stat"
    /\ sreq[c].phase = "answered"
    /\ ret' = StorageReturn("Stat", c, sreq[c].skey, sreq[c].okey,
                            IF sreq[c].err = Nil THEN "KeyInfo" ELSE NoObject, Nil)
    /\ pc' = [pc EXCEPT ![c] = "idle"]
    /\ sreq' = [sreq EXCEPT ![c] = NoStorageCall]
    /\ UNCHANGED objects
    /\ UNCHANGED <<lease, FASMSLocks, nextLocker, resourceName, uuid, gpc, gresp,
                   key, lock, ctx, upc, uval, holder, released, ureq, granted,
                   FASMSEndpoint, Prefix, cleanup>>
    /\ UNCHANGED redisVars

\* ------------------------------------------------- the service's other clients
\* The TTL of the lease of r elapses.
Expire(r) ==
    /\ lease[r] # NoLease
    /\ lease' = [lease EXCEPT ![r] = NoLease]
    /\ ret' = NoReturn
    /\ UNCHANGED <<FASMSLocks, nextLocker, resourceName, uuid, gpc, gresp, pc,
                   key, lock, ctx, upc, uval, holder, released, ureq, granted>>
    /\ UNCHANGED <<FASMSEndpoint, Prefix, objects, sreq, cleanup>>
    /\ UNCHANGED redisVars

\* An owner outside this process obtains r.
ExtObtain(r) ==
    /\ lease[r] = NoLease
    /\ lease' = [lease EXCEPT ![r] = ExtToken]
    /\ ret' = NoReturn
    /\ UNCHANGED <<FASMSLocks, nextLocker, resourceName, uuid, gpc, gresp, pc,
                   key, lock, ctx, upc, uval, holder, released, ureq, granted>>
    /\ UNCHANGED <<FASMSEndpoint, Prefix, objects, sreq, cleanup>>
    /\ UNCHANGED redisVars

\* That owner releases r with its uuid.
ExtRelease(r) ==
    /\ lease[r] = ExtToken
    /\ lease' = [lease EXCEPT ![r] = NoLease]
    /\ ret' = NoReturn
    /\ UNCHANGED <<FASMSLocks, nextLocker, resourceName, uuid, gpc, gresp, pc,
                   key, lock, ctx, upc, uval, holder, released, ureq, granted>>
    /\ UNCHANGED <<FASMSEndpoint, Prefix, objects, sreq, cleanup>>
    /\ UNCHANGED redisVars

\* ------------------------------------------ the Redis variant, part_000
\* Redis as the lock backend: `lease` is the value it holds under each key,
\* `granted` the tokens it has stored for this process.

\* The random token of an Obtain: one that Redis has not held before.
FreshToken == CHOOSE t \in Lockers \ granted : \A u \in Lockers \ granted : t <= u

\* SET key value NX PX ttl: stored iff the key holds no live value.
RedisSetNX(r, t) ==
    IF lease[r] = NoLease
    THEN [lease |-> [lease EXCEPT ![r] = t], ok |-> TRUE]
    ELSE [lease |-> lease, ok |-> FALSE]

\* The script of Release: DEL key iff the key holds the value of the lock.
RedisDelValue(l) ==
    IF lease[l.key] = l.value
    THEN [lease |-> [lease EXCEPT ![l.key] = NoLease], ok |-> TRUE]
    ELSE [lease |-> lease, ok |-> FALSE]

\* A call of Release on a nil *redislock.Lock has panicked: Release reads the
\* fields of its receiver.
Panicked == rcleanup.pc = "panic" \/ \E c \in Callers : rcall[c].pc = "panic"

\* The Obtain calls this process has in flight.
Obtaining == {c \in Callers : rcall[c].pc = "Obtain"}

\* S3.Lock(_, r): RedisLocker.Obtain(key, time.Minute, nil) sends its SET.
RedisS3Lock(c, r) ==
    /\ rcleanup.pc = "none"
    /\ ~Panicked
    /\ rcall[c].pc = "idle"
    /\ Cardinality(granted) + Cardinality(Obtaining) < MaxLockers
    /\ rcall' = [rcall EXCEPT ![c] = [NoRedisCall EXCEPT !.pc = "Obtain", !.key = r]]
    /\ ret' = NoReturn
    /\ UNCHANGED <<lease, granted, RedisLocks, rcleanup>>
    /\ UNCHANGED fasmsVars

\* Redis answers that SET.  Stored: Obtain returns the lock.  Not stored:
\* without options Obtain does not retry and returns (nil, ErrNotObtained).
RedisObtain(c) ==
    /\ rcall[c].pc = "Obtain"
    /\ LET t == FreshToken
           out == RedisSetNX(rcall[c].key, t) IN
        /\ lease' = out.lease
        /\ granted' = IF out.ok THEN granted \cup {t} ELSE granted
        /\ rcall' = [rcall EXCEPT ![c].pc = "Obtained",
                                  ![c].lock = IF out.ok
                                              THEN RedisLock(rcall[c].key, t)
                                              ELSE NilLock,
                                  ![c].err = IF out.ok THEN Nil ELSE ErrNotObtained]
    /\ ret' = NoReturn
    /\ UNCHANGED <<RedisLocks, rcleanup>>
    /\ UNCHANGED fasmsVars

\* The SET fails: Obtain returns (nil, err).
RedisObtainFail(c, e) ==
    /\ rcall[c].pc = "Obtain"
    /\ rcall' = [rcall EXCEPT ![c].pc = "Obtained",
                              ![c].lock = NilLock,
                              ![c].err = e]
    /\ ret' = NoReturn
    /\ UNCHANGED <<lease, granted, RedisLocks, rcleanup>>
    /\ UNCHANGED fasmsVars

\* s3.RedisLocks[key] = lock, whatever err is, and return err.
RedisLockReturn(c) ==
    /\ rcall[c].pc = "Obtained"
    /\ ~Panicked
    /\ RedisLocks' = [x \in DOMAIN RedisLocks \cup {rcall[c].key} |->
                        IF x = rcall[c].key THEN rcall[c].lock ELSE RedisLocks[x]]
    /\ rcall' = [rcall EXCEPT ![c] = NoRedisCall]
    /\ ret' = Return("Lock", c, rcall[c].key, NoLocker, 0, rcall[c].err)
    /\ UNCHANGED <<lease, granted, rcleanup>>
    /\ UNCHANGED fasmsVars

\* S3.Unlock(r).  No entry: return nil.  An entry: lock.Release() sends its
\* script, or panics when the entry is nil.
RedisS3Unlock(c, r) ==
    /\ rcleanup.pc = "none"
    /\ ~Panicked
    /\ rcall[c].pc = "idle"
    /\ IF r \in DOMAIN RedisLocks
       THEN /\ rcall' = [rcall EXCEPT ![c] =
                           IF RedisLocks[r].nil
                           THEN [NoRedisCall EXCEPT !.pc = "panic", !.key = r]
                           ELSE [NoRedisCall EXCEPT !.pc = "Release", !.key = r,
                                                    !.lock = RedisLocks[r]]]
            /\ ret' = NoReturn
       ELSE /\ rcall' = rcall
            /\ ret' = Return("Unlock", c, r, NoLocker, 0, Nil)
    /\ UNCHANGED <<lease, granted, RedisLocks, rcleanup>>
    /\ UNCHANGED fasmsVars

\* Redis answers the script of that Release: nil, or ErrLockNotHeld when the
\* key does not hold the value of the lock.
RedisRelease(c) ==
    /\ rcall[c].pc = "Release"
    /\ LET out == RedisDelValue(rcall[c].lock) IN
        /\ lease' = out.lease
        /\ rcall' = [rcall EXCEPT ![c].pc = "Released",
                                  ![c].err = IF out.ok THEN Nil ELSE ErrLockNotHeld]
    /\ ret' = NoReturn
    /\ UNCHANGED <<granted, RedisLocks, rcleanup>>
    /\ UNCHANGED fasmsVars

\* The script fails: Release returns err.
RedisReleaseFail(c, e) ==
    /\ rcall[c].pc = "Release"
    /\ rcall' = [rcall EXCEPT ![c].pc = "Released", ![c].err = e]
    /\ ret' = NoReturn
    /\ UNCHANGED <<lease, granted, RedisLocks, rcleanup>>
    /\ UNCHANGED fasmsVars

\* delete(s3.RedisLocks, key), and return the error of Release.
RedisUnlockReturn(c) ==
    /\ rcall[c].pc = "Released"
    /\ ~Panicked
    /\ RedisLocks' = [x \in DOMAIN RedisLocks \ {rcall[c].key} |-> RedisLocks[x]]
    /\ rcall' = [rcall EXCEPT ![c] = NoRedisCall]
    /\ ret' = Return("Unlock", c, rcall[c].key, NoLocker, 1, rcall[c].err)
    /\ UNCHANGED <<lease, granted, rcleanup>>
    /\ UNCHANGED fasmsVars

\* S3.Cleanup: for _, lock := range s3.RedisLocks.  No caller is inside a
\* method of S3 by then.
RedisS3Cleanup ==
    /\ rcleanup.pc = "none"
    /\ ~Panicked
    /\ \A c \in Callers : rcall[c].pc = "idle"
    /\ rcleanup' = [NoRedisCleanup EXCEPT !.pc = "range",
                                          !.todo = DOMAIN RedisLocks,
                                          !.start = DOMAIN RedisLocks]
    /\ ret' = NoReturn
    /\ UNCHANGED <<lease, granted, RedisLocks, rcall>>
    /\ UNCHANGED fasmsVars

\* One iteration on an entry that is a lock: lock.Release() sends its script.
RedisCleanupRelease(r) ==
    /\ rcleanup.pc = "range"
    /\ r \in rcleanup.todo
    /\ ~RedisLocks[r].nil
    /\ rcleanup' = [rcleanup EXCEPT !.pc = "wait",
                                    !.todo = @ \ {r},
                                    !.lock = RedisLocks[r],
                                    !.tried = @ \cup {r}]
    /\ ret' = NoReturn
    /\ UNCHANGED <<lease, granted, RedisLocks, rcall>>
    /\ UNCHANGED fasmsVars

\* One iteration on an entry that is nil: lock.Release() dereferences its
\* receiver and the process panics.
RedisCleanupPanic(r) ==
    /\ rcleanup.pc = "range"
    /\ r \in rcleanup.todo
    /\ RedisLocks[r].nil
    /\ rcleanup' = [rcleanup EXCEPT !.pc = "panic"]
    /\ ret' = NoReturn
    /\ UNCHANGED <<lease, granted, RedisLocks, rcall>>
    /\ UNCHANGED fasmsVars

\* Redis answers the script of the iteration.
RedisCleanupReleased ==
    /\ rcleanup.pc = "wait"
    /\ LET out == RedisDelValue(rcleanup.lock) IN
        /\ lease' = out.lease
        /\ rcleanup' = [rcleanup EXCEPT !.pc = "released",
                                        !.err = IF out.ok THEN Nil ELSE ErrLockNotHeld]
    /\ ret' = NoReturn
    /\ UNCHANGED <<granted, RedisLocks, rcall>>
    /\ UNCHANGED fasmsVars

\* The script of the iteration fails.
RedisCleanupReleaseFail(e) ==
    /\ rcleanup.pc = "wait"
    /\ rcleanup' = [rcleanup EXCEPT !.pc = "released", !.err = e]
    /\ ret' = NoReturn
    /\ UNCHANGED <<lease, granted, RedisLocks, rcall>>
    /\ UNCHANGED fasmsVars

\* _ = lock.Release(): the loop drops what Release returned and goes on.
RedisCleanupNext ==
    /\ rcleanup.pc = "released"
    /\ rcleanup' = [rcleanup EXCEPT !.pc = "range", !.lock = NilLock, !.err = Nil]
    /\ ret' = NoReturn
    /\ UNCHANGED <<lease, granted, RedisLocks, rcall>>
    /\ UNCHANGED fasmsVars

\* The range is over: _ = s3.RedisClient.Close() and return nil.
RedisCleanupReturn ==
    /\ rcleanup.pc = "range"
    /\ rcleanup.todo = {}
    /\ rcleanup' = [rcleanup EXCEPT !.pc = "done"]
    /\ ret' = Return("Cleanup", NoCaller, NoResource, NoLocker,
                     Cardinality(rcleanup.tried), Nil)
    /\ UNCHANGED <<lease, granted, RedisLocks, rcall>>
    /\ UNCHANGED fasmsVars

Next ==
    \/ \E c \in Callers, r \in Keys : S3Lock(c, r)
    \/ \E c \in Callers, e \in CtxErrors : CtxDone(c, e)
    \/ \E h \in Lockers : ServeObtain(h)
    \/ \E h \in Lockers, e \in ObtainErrors : FailObtain(h, e)
    \/ \E h \in Lockers : LockGoroutine(h)
    \/ \E h \in Lockers : Wake(h)
    \/ \E c \in Callers : LockSelectChan(c)
    \/ \E c \in Callers : LockSelectDone(c)
    \/ \E c \in Callers, r \in Keys : S3Unlock(c, r)
    \/ \E c \in Callers : UnlockRequest(c)
    \/ \E c \in Callers : ServeRelease(c)
    \/ \E c \in Callers, e \in ReleaseErrors : FailNewRequest(c, e)
    \/ \E c \in Callers, e \in ReleaseErrors : FailRelease(c, e)
    \/ \E c \in Callers : UnlockSelectChan(c)
    \/ \E r \in Keys : Expire(r)
    \/ \E r \in Keys : ExtObtain(r)
    \/ \E r \in Keys : ExtRelease(r)

Spec == Init /\ [][Next]_vars

\* What the scheduler and the network are taken to guarantee: a request sent is
\* answered (with a body or an error), a runnable goroutine runs, a select with
\* a ready case returns, and the TTL of a lease elapses.  Calls of S3.Lock and
\* S3.Unlock, cancellations and the clients outside are under no obligation.
Fairness ==
    /\ \A h \in Lockers :
        /\ WF_vars(ServeObtain(h) \/ \E e \in ObtainErrors : FailObtain(h, e))
        /\ WF_vars(LockGoroutine(h))
        /\ WF_vars(Wake(h))
    /\ \A c \in Callers :
        /\ WF_vars(LockSelectChan(c))
        /\ WF_vars(LockSelectDone(c))
        /\ WF_vars(UnlockRequest(c) \/ \E e \in ReleaseErrors : FailNewRequest(c, e))
        /\ WF_vars(ServeRelease(c) \/ \E e \in ReleaseErrors : FailRelease(c, e))
        /\ WF_vars(UnlockSelectChan(c))
    /\ \A r \in Keys : WF_vars(Expire(r))

FairSpec == Spec /\ Fairness

\* ------------------------------------------------------------ TTL self-heal
\* The runs of the TTL claim: whoever holds a lease never releases it (the
\* owner outside holds the key from the start and is gone, and no caller calls
\* S3.Unlock), no context is cancelled and no request fails.
SelfHealInit ==
    /\ InitProcess
    /\ FASMSEndpoint = Endpoint
    /\ Prefix = ConfiguredPrefix
    /\ \E owner \in {NoLease, ExtToken} :
         lease = [r \in Resources |-> IF r \in Keys THEN owner ELSE NoLease]

SelfHealNext ==
    \/ \E c \in Callers, r \in Keys : S3Lock(c, r)
    \/ \E h \in Lockers : ServeObtain(h)
    \/ \E h \in Lockers : LockGoroutine(h)
    \/ \E h \in Lockers : Wake(h)
    \/ \E c \in Callers : LockSelectChan(c)
    \/ \E r \in Keys : Expire(r)

SelfHealFairness ==
    /\ \A h \in Lockers :
        /\ WF_vars(ServeObtain(h))
        /\ WF_vars(LockGoroutine(h))
        /\ WF_vars(Wake(h))
    /\ \A c \in Callers : WF_vars(LockSelectChan(c))
    /\ \A r \in Keys : WF_vars(Expire(r))

SelfHealSpec == SelfHealInit /\ [][SelfHealNext]_vars /\ SelfHealFairness

\* -------------------------------------------------------------- namespace
\* The runs of the claims on keys: a process with any prefix, whose callers
\* call the storage methods with any key, one caller during the call of
\* another.
NamespaceInit ==
    /\ lease = [r \in Resources |-> NoLease]
    /\ FASMSEndpoint = Endpoint
    /\ Prefix \in Prefixes
    /\ InitProcess

NamespaceNext ==
    \/ \E c \in Callers, k \in StorageKeys : S3KeyPrefix(c, k)
    \/ \E c \in Callers, k \in StorageKeys, v \in Values : S3Store(c, k, v)
    \/ \E c \in Callers, k \in StorageKeys : S3Load(c, k)
    \/ \E c \in Callers, k \in StorageKeys : S3Delete(c, k)
    \/ \E c \in Callers, k \in StorageKeys : S3Exists(c, k)
    \/ \E c \in Callers, k \in StorageKeys : S3Stat(c, k)
    \/ \E c \in Callers : StorePutObject(c)
    \/ \E c \in Callers : LoadGetObject(c)
    \/ \E c \in Callers : DeleteRemoveObject(c)
    \/ \E c \in Callers : ExistsStatObject(c)
    \/ \E c \in Callers : StatStatObject(c)
    \/ \E c \in Callers : StoreReturn(c)
    \/ \E c \in Callers : LoadReturn(c)
    \/ \E c \in Callers : DeleteReturn(c)
    \/ \E c \in Callers : ExistsReturn(c)
    \/ \E c \in Callers : StatReturn(c)

NamespaceSpec == NamespaceInit /\ [][NamespaceNext]_vars

\* The runs of the claim on KeyPrefix: the same process, KeyPrefix called by
\* itself and by Store and Load with any key, one caller during the call of
\* another; each caller stores a content of its own.
KeyPrefixNext ==
    \/ \E c \in Callers, k \in StorageKeys : S3KeyPrefix(c, k)
    \/ \E c \in Callers, k \in StorageKeys : S3Store(c, k, Content(c))
    \/ \E c \in Callers, k \in StorageKeys : S3Load(c, k)
    \/ \E c \in Callers : StorePutObject(c)
    \/ \E c \in Callers : LoadGetObject(c)
    \/ \E c \in Callers : StoreReturn(c)
    \/ \E c \in Callers : LoadReturn(c)

KeyPrefixSpec == NamespaceInit /\ [][KeyPrefixNext]_vars

\* ------------------------------------------------------------ two resources
\* The runs of the claim on the independence of resources: callers lock and
\* unlock the two resources, requests may fail, leases expire.  No context is
\* cancelled and the service has no other client.
IndependenceNext ==
    \/ \E c \in Callers, r \in Resources : S3Lock(c, r)
    \/ \E h \in Lockers : ServeObtain(h)
    \/ \E h \in Lockers, e \in ObtainErrors : FailObtain(h, e)
    \/ \E h \in Lockers : LockGoroutine(h)
    \/ \E h \in Lockers : Wake(h)
    \/ \E c \in Callers : LockSelectChan(c)
    \/ \E c \in Callers, r \in Resources : S3Unlock(c, r)
    \/ \E c \in Callers : UnlockRequest(c)
    \/ \E c \in Callers : ServeRelease(c)
    \/ \E c \in Callers, e \in ReleaseErrors : FailNewRequest(c, e)
    \/ \E c \in Callers, e \in ReleaseErrors : FailRelease(c, e)
    \/ \E c \in Callers : UnlockSelectChan(c)
    \/ \E r \in Resources : Expire(r)

IndependenceSpec == Init /\ [][IndependenceNext]_vars

\* The runs of the claim on the registry map: as above without failing
\* requests, every access of the map in two steps.
RaceNext ==
    \/ \E c \in Callers, r \in Resources : S3Lock(c, r)
    \/ \E h \in Lockers : ServeObtain(h)
    \/ \E h \in Lockers : LockGoroutine(h)
    \/ \E h \in Lockers : Wake(h)
    \/ \E c \in Callers : MapLockSelect(c)
    \/ \E c \in Callers : MapLockAssigned(c)
    \/ \E c \in Callers, r \in Resources : MapUnlock(c, r)
    \/ \E c \in Callers : MapUnlockLooked(c)
    \/ \E c \in Callers : UnlockRequest(c)
    \/ \E c \in Callers : ServeRelease(c)
    \/ \E c \in Callers : MapUnlockSelect(c)
    \/ \E c \in Callers : MapUnlockDeleted(c)
    \/ \E r \in Resources : Expire(r)
    \/ ConcurrentMapFatal

RaceSpec == ServedInit /\ [][RaceNext]_vars

\* ---------------------------------------------------------------- shutdown
\* The runs of the claims on Cleanup: callers lock and unlock the two
\* resources, an acquire request or a release of Cleanup may fail, leases
\* expire; then Cleanup runs.  No context is cancelled.
ShutdownNext ==
    \/ \E c \in Callers, r \in Resources : S3Lock(c, r)
    \/ \E h \in Lockers : ServeObtain(h)
    \/ \E h \in Lockers, e \in ObtainErrors : FailObtain(h, e)
    \/ \E h \in Lockers : LockGoroutine(h)
    \/ \E h \in Lockers : Wake(h)
    \/ \E c \in Callers : LockSelectChan(c)
    \/ \E c \in Callers, r \in Resources : S3Unlock(c, r)
    \/ \E c \in Callers : UnlockRequest(c)
    \/ \E c \in Callers : ServeRelease(c)
    \/ \E c \in Callers, e \in ReleaseErrors : FailNewRequest(c, e)
    \/ \E c \in Callers : UnlockSelectChan(c)
    \/ \E r \in Resources : Expire(r)
    \/ S3Cleanup
    \/ \E r \in Resources : CleanupUnlock(r)
    \/ CleanupRequest
    \/ \E e \in ReleaseErrors : CleanupFailNewRequest(e)
    \/ CleanupServeRelease
    \/ \E e \in ReleaseErrors : CleanupFailRelease(e)
    \/ CleanupUnlockReturn
    \/ CleanupReturn

ShutdownSpec == Init /\ [][ShutdownNext]_vars

\* The runs of the claim on Cleanup in the Redis variant: callers lock and
\* unlock the two keys, a command may fail, another process may hold a key,
\* leases expire; then Cleanup runs.
RedisInit ==
    /\ lease = [r \in Resources |-> NoLease]
    /\ FASMSEndpoint = Endpoint
    /\ Prefix = ConfiguredPrefix
    /\ InitProcess

RedisShutdownNext ==
    \/ \E c \in Callers, r \in Resources : RedisS3Lock(c, r)
    \/ \E c \in Callers : RedisObtain(c)
    \/ \E c \in Callers, e \in RedisErrors : RedisObtainFail(c, e)
    \/ \E c \in Callers : RedisLockReturn(c)
    \/ \E c \in Callers, r \in Resources : RedisS3Unlock(c, r)
    \/ \E c \in Callers : RedisRelease(c)
    \/ \E c \in Callers, e \in RedisErrors : RedisReleaseFail(c, e)
    \/ \E c \in Callers : RedisUnlockReturn(c)
    \/ \E r \in Resources : Expire(r)
    \/ \E r \in Resources : ExtObtain(r)
    \/ \E r \in Resources : ExtRelease(r)
    \/ RedisS3Cleanup
    \/ \E r \in Resources : RedisCleanupRelease(r)
    \/ \E r \in Resources : RedisCleanupPanic(r)
    \/ RedisCleanupReleased
    \/ \E e \in RedisErrors : RedisCleanupReleaseFail(e)
    \/ RedisCleanupNext
    \/ RedisCleanupReturn

RedisShutdownSpec == RedisInit /\ [][RedisShutdownNext]_vars

\* ----------------------------------------------------------------- handoff
\* The runs of the end-to-end scenario: callers lock the key, store and load
\* the certificate under it, and unlock; no context is cancelled, no request
\* fails and the service has no other client.
CertKey == <<"c", "e", "r", "t">>

\* The Lock of caller c has returned nil and c has not called Unlock since.
HoldsLock(c) == \E h \in Lockers : holder[h] = c

HandoffNext ==
    \/ \E c \in Callers, r \in Keys : S3Lock(c, r)
    \/ \E h \in Lockers : ServeObtain(h)
    \/ \E h \in Lockers : LockGoroutine(h)
    \/ \E h \in Lockers : Wake(h)
    \/ \E c \in Callers : LockSelectChan(c)
    \/ \E c \in Callers : HoldsLock(c) /\ S3Store(c, CertKey, Content(c))
    \/ \E c \in Callers : StorePutObject(c)
    \/ \E c \in Callers : StoreReturn(c)
    \/ \E c \in Callers : HoldsLock(c) /\ S3Load(c, CertKey)
    \/ \E c \in Callers : LoadGetObject(c)
    \/ \E c \in Callers : LoadReturn(c)
    \/ \E c \in Callers, r \in Keys : S3Unlock(c, r)
    \/ \E c \in Callers : UnlockRequest(c)
    \/ \E c \in Callers : ServeRelease(c)
    \/ \E c \in Callers : UnlockSelectChan(c)
    \/ \E r \in Keys : Expire(r)

HandoffFairness ==
    /\ \A h \in Lockers :
        /\ WF_vars(ServeObtain(h))
        /\ WF_vars(LockGoroutine(h))
        /\ WF_vars(Wake(h))
    /\ \A c \in Callers :
        /\ WF_vars(LockSelectChan(c))
        /\ WF_vars(UnlockRequest(c))
        /\ WF_vars(ServeRelease(c))
        /\ WF_vars(UnlockSelectChan(c))
    /\ \A r \in Keys : WF_vars(Expire(r))

HandoffSpec == ServedInit /\ [][HandoffNext]_vars /\ HandoffFairness

\* ------------------------------------------------------------------ claims
\* Lock returned nil for locker h and that caller has not called Unlock since.
Believes(h) == holder[h] # NoCaller

\* The lease the service granted to locker h has ended (released or expired).
LeaseEnded(h) == h \in granted /\ lease[resourceName[h]] # FreshUuid(h)

\* No caller is inside FASMSLocker.Lock of h, whose goroutine has not returned.
Abandoned(h) ==
    /\ gpc[h] \notin {"none", "done"}
    /\ \A c \in Callers : ~(pc[c] = "Lock" /\ lock[c] = h)

\* C1. Mutual exclusion: of two lockers of one resource whose Lock both returned
\* nil and whose callers have not called Unlock, at least one has had its lease
\* end at the service (expired or released): two callers never hold one
\* resource under leases that are both unended.
C1_MutualExclusion ==
    \A h1 \in Lockers, h2 \in Lockers :
        (/\ h1 # h2
         /\ resourceName[h1] = resourceName[h2]
         /\ Believes(h1)
         /\ Believes(h2))
        => (LeaseEnded(h1) \/ LeaseEnded(h2))

\* Two callers contend: one holds the live lease, the other is still polling.
C1_Witness ==
    \E h1 \in Lockers, h2 \in Lockers, c \in Callers :
        /\ h1 # h2
        /\ Believes(h1)
        /\ lease[resourceName[h1]] = FreshUuid(h1)
        /\ pc[c] = "Lock" /\ lock[c] = h2
        /\ resourceName[h2] = resourceName[h1]
        /\ gpc[h2] = "sleep"

\* C2. A failed S3.Lock leaves the registry as it was and returns the error of
\* the backend acquire: every step in which S3.Lock returns an error keeps
\* FASMSLocks unchanged.
C2_FailedLockKeepsRegistry ==
    [][(ret'.op = "Lock" /\ ret'.err # Nil)
         => (/\ FASMSLocks' = FASMSLocks
             /\ ret'.err \in ObtainErrors \cup CtxErrors)]_vars

\* C3. Registry tracking: a locker whose Lock returned nil, whose caller has not
\* called Unlock and whose lease is live at the service is the registry's entry
\* for its resource (an entry with the token of that lease).
C3_RegistryTracksHeldLease ==
    \A h \in Lockers :
        (Believes(h) /\ lease[resourceName[h]] = uuid[h])
        => (/\ FASMSLocks[resourceName[h]] # NoLocker
            /\ uuid[FASMSLocks[resourceName[h]]] = uuid[h])

\* S3.Lock of caller c returns in this step, its goroutine having had nothing
\* but "not obtained" answers (it is polling, or asleep between two polls).
ReturnsWhileContended(c) ==
    /\ pc[c] = "Lock"
    /\ pc'[c] = "idle"
    /\ lock[c] \notin granted
    /\ gpc[lock[c]] \in {"lock", "sleep"}

\* C4. Cancellation distinctness: a Lock whose resource was held by others all
\* along returns only once its context is done, and then it returns the
\* context's error (not nil, not an error of the acquire); and once the context
\* is done the return is enabled whatever the polling goroutine is doing.
C4_CancellationDistinct ==
    /\ [][\A c \in Callers :
            ReturnsWhileContended(c)
            => (/\ ctx[c] \in CtxErrors
                /\ ret'.op = "Lock"
                /\ ret'.caller = c
                /\ ret'.err = ctx[c])]_vars
    /\ [](\A c \in Callers :
            (pc[c] = "Lock" /\ ctx[c] # "live") => ENABLED LockSelectDone(c))

\* A Lock returned the context's error while its polling request was in flight
\* and the resource was held by the owner outside.
C4_Witness ==
    /\ ret.op = "Lock"
    /\ ret.err \in CtxErrors
    /\ gpc[ret.locker] = "lock"
    /\ ret.locker \notin granted
    /\ lease[ret.key] = ExtToken

\* C5. The polling goroutine of a Lock that returned through cancellation
\* eventually exits.
C5_AbandonedPollerExits ==
    \A h \in Lockers : [](Abandoned(h) => <>(gpc[h] = "done"))

\* The registry as a caller sees it: per resource, the locker stored and the
\* token in it.
RegistryState ==
    [r \in Resources |->
        IF FASMSLocks[r] = NoLocker
        THEN <<NoLocker, EmptyUuid>>
        ELSE <<FASMSLocks[r], uuid[FASMSLocks[r]]>>]

\* C6. After S3.Lock returned an error, the polling goroutine it left behind
\* changes neither the registry's entries nor the token of a stored locker.
C6_AbandonedPollerKeepsRegistry ==
    [][\A h \in Lockers :
         (Abandoned(h) /\ gpc'[h] # gpc[h]) => (RegistryState' = RegistryState)]_vars

\* The goroutine of caller c's Unlock sends its release request in this step.
SendsRelease(c) == upc[c] = "unlock" /\ upc'[c] = "wait"
\* The request of release of caller c's Unlock is answered in this step.
ReleaseAnswered(c) == upc[c] = "wait" /\ upc'[c] = "send"

\* C7. Token binding: every release request names the resource and the token
\* stored in the locker when the request is built, and a request whose token is
\* not the one of the live lease when it is answered leaves the leases as they
\* are and ends in an error (a live lease stays, so the next acquire of that
\* resource is still answered "not obtained").
C7_TokenBinding ==
    [][\A c \in Callers :
         /\ SendsRelease(c)
            => (/\ ureq'[c].resource_name = resourceName[lock[c]]
                /\ ureq'[c].has_uuid
                /\ ureq'[c].uuid = uuid[lock[c]])
         /\ (ReleaseAnswered(c) /\ ureq[c].uuid # lease[ureq[c].resource_name])
            => (/\ lease' = lease
                /\ uval'[c] # Nil)]_vars

\* A release with the token of an expired lease was refused while the owner
\* outside holds the resource, and that owner's lease is still there.
C7_Witness ==
    \E c \in Callers :
        /\ upc[c] = "send"
        /\ uval[c] = NotReleased
        /\ ureq[c].uuid # EmptyUuid
        /\ lease[ureq[c].resource_name] = ExtToken

\* Caller c calls S3.Unlock(r) in this step.
CallsUnlock(c, r) ==
    /\ pc[c] = "idle"
    /\ \/ pc'[c] = "Unlock" /\ key'[c] = r
       \/ ret'.op = "Unlock" /\ ret'.caller = c /\ ret'.key = r

\* C8. Idempotent release: S3.Unlock(r) with no entry for r in the registry
\* returns nil at once, sends no request, and leaves the registry, the lockers
\* and the leases as they are.
C8_UnlockAbsentIsNoOp ==
    [][\A c \in Callers, r \in Resources :
         (CallsUnlock(c, r) /\ FASMSLocks[r] = NoLocker)
         => (/\ ret' = Return("Unlock", c, r, NoLocker, 0, Nil)
             /\ pc'[c] = "idle"
             /\ UNCHANGED <<FASMSLocks, lease, uuid, upc, released, ureq>>)]_vars

\* An Unlock found no entry and returned nil without a request while the
\* resource was leased to the owner outside.
C8_Witness ==
    /\ ret.op = "Unlock"
    /\ ret.locker = NoLocker
    /\ ret.requests = 0
    /\ ret.err = Nil
    /\ FASMSLocks[ret.key] = NoLocker
    /\ lease[ret.key] = ExtToken

\* C9. S3.Unlock(r) with an entry for r calls Unlock of the locker it found
\* once: that call sends one release request, for that locker, or none and
\* ends in an error when the request cannot be built; S3.Unlock removes the
\* entry of r whatever the release gave, and returns what the release gave.
C9_UnlockRemovesEntry ==
    [][\A c \in Callers :
         /\ (pc[c] = "idle" /\ pc'[c] = "Unlock")
            => (/\ upc'[c] = "unlock"
                /\ released'[c] = 0
                /\ lock'[c] = FASMSLocks[key'[c]])
         /\ (pc[c] = "Unlock" /\ pc'[c] = "Unlock" /\ upc'[c] # upc[c])
            => <<upc[c], upc'[c]>> \in
                 {<<"unlock", "wait">>, <<"unlock", "send">>, <<"wait", "send">>}
         /\ (pc[c] = "Unlock" /\ pc'[c] = "idle")
            => (/\ IF UrlParses(FASMSEndpoint)
                   THEN /\ released[c] = 1
                        /\ ureq[c].resource_name = resourceName[lock[c]]
                   ELSE /\ released[c] = 0
                        /\ uval[c] # Nil
                /\ resourceName[lock[c]] = key[c]
                /\ FASMSLocks'[key[c]] = NoLocker
                /\ ret' = Return("Unlock", c, key[c], lock[c], released[c],
                                 uval[c]))]_vars

\* An Unlock whose release was refused has removed the entry and returned the
\* error.
C9_Witness ==
    /\ ret.op = "Unlock"
    /\ ret.requests = 1
    /\ ret.err = NotReleased
    /\ FASMSLocks[ret.key] = NoLocker

\* Caller c is in S3.Lock with locker h while the service records a lease of
\* the resource for somebody else.
WaitsForLease(c, h) ==
    /\ pc[c] = "Lock"
    /\ lock[c] = h
    /\ lease[resourceName[h]] \notin {NoLease, FreshUuid(h)}

\* C10. TTL self-heal: when nobody releases, a caller polling in Lock for a
\* resource leased to somebody else eventually has its Lock return nil.
C10_TtlSelfHeal ==
    \A c \in Callers, h \in Lockers :
        WaitsForLease(c, h) ~> (holder[h] = c)

\* A second locker holds the live lease while the first one, never unlocked,
\* has had its lease expire.
C10_Witness ==
    \E h1 \in Lockers, h2 \in Lockers :
        /\ h1 # h2
        /\ Believes(h1) /\ LeaseEnded(h1)
        /\ Believes(h2) /\ lease[resourceName[h2]] = FreshUuid(h2)
        /\ resourceName[h1] = resourceName[h2]

\* The service grants the request of locker h in this step.
Grants(h) == h \in granted' /\ h \notin granted
\* The object store answers the request of caller c's Store / Load in this
\* step.
StoreAnswered(c) ==
    pc[c] = "Store" /\ sreq[c].phase = "sent" /\ sreq'[c].phase = "answered"
LoadAnswered(c) ==
    pc[c] = "Load" /\ sreq[c].phase = "sent" /\ sreq'[c].phase = "answered"

\* C11. End-to-end handoff.  While a caller holds the resource under a lease
\* that has not ended, the service grants it to no other locker, and a Lock
\* returns nil only with a locker the service has granted: the Lock of a
\* blocked caller does not succeed before the holder's Unlock or the expiry of
\* its lease.  Once an Unlock of the resource has succeeded, the Lock of a
\* caller blocked on it eventually returns nil.  The object store puts the
\* content of a Store under the key of that Store, answers a Load with the
\* content a Store of the same key has put there, and the Load returns what it
\* was answered.
C11_Handoff ==
    /\ [][\A h \in Lockers :
            Grants(h)
            => \A hA \in Lockers :
                 (/\ hA # h
                  /\ resourceName[hA] = resourceName[h]
                  /\ Believes(hA))
                 => LeaseEnded(hA)]_vars
    /\ [][(ret'.op = "Lock" /\ ret'.err = Nil) => ret'.locker \in granted]_vars
    /\ \A a \in Callers, b \in Callers, h \in Lockers :
         (/\ ret.op = "Unlock" /\ ret.caller = a /\ ret.err = Nil
          /\ pc[b] = "Lock" /\ lock[b] = h /\ resourceName[h] = ret.key)
         ~> (holder[h] = b)
    /\ [][\A c \in Callers :
            /\ StoreAnswered(c)
               => objects'[StoreKey(sreq[c].skey)] = sreq[c].value
            /\ LoadAnswered(c)
               => (StoreKey(sreq[c].skey) \in DOMAIN objects
                   => (/\ sreq'[c].value = objects[StoreKey(sreq[c].skey)]
                       /\ sreq'[c].err = Nil))
            /\ (pc[c] = "Load" /\ pc'[c] = "idle")
               => (/\ ret'.op = "Load" /\ ret'.caller = c
                   /\ ret'.skey = sreq[c].skey
                   /\ ret'.value = sreq[c].value
                   /\ ret'.err = sreq[c].err)]_vars

\* Caller b, holding the resource under a live lease, has loaded the
\* certificate that another caller stored; that caller's lease, granted before,
\* has ended and it has called Unlock.
C11_Witness ==
    \E a \in Callers, b \in Callers, hA \in Lockers, hB \in Lockers :
        /\ a # b
        /\ hA < hB
        /\ ret.op = "Load" /\ ret.caller = b /\ ret.skey = CertKey
        /\ ret.value = Content(a)
        /\ holder[hB] = b
        /\ lease[resourceName[hB]] = FreshUuid(hB)
        /\ resourceName[hA] = resourceName[hB]
        /\ LeaseEnded(hA)
        /\ holder[hA] = NoCaller

\* C13. Namespace idempotence: KeyPrefix applied to what KeyPrefix returned
\* gives it back; a key that starts with the prefix is returned as it is, any
\* other key becomes prefix, "/", key.
C13_KeyPrefixIdempotent ==
    (ret.op = "KeyPrefix")
    => (/\ KeyPrefix(Prefix, ret.okey) = ret.okey
        /\ HasPrefix(ret.skey, Prefix) => ret.okey = ret.skey
        /\ ~HasPrefix(ret.skey, Prefix) => ret.okey = Prefix \o <<"/">> \o ret.skey)

\* KeyPrefix was called with a key that does not start with the prefix, which
\* is not empty, and returned the joined key.
C13_Witness ==
    /\ ret.op = "KeyPrefix"
    /\ Prefix # EmptyString
    /\ ~HasPrefix(ret.skey, Prefix)
    /\ ret.okey = Prefix \o <<"/">> \o ret.skey
    /\ Len(ret.skey) > 0

\* The storage methods that take the key of one object.
StorageOps == {"Store", "Load", "Delete", "Exists", "Stat"}

\* C20. Namespace containment: with a prefix that is not empty, the key that
\* Store, Load, Delete, Exists and Stat pass to the object store begins with
\* the prefix followed by "/".
C20_NamespaceContainment ==
    (ret.op \in StorageOps /\ Prefix # EmptyString)
    => HasPrefix(ret.okey, Prefix \o <<"/">>)

\* C12. Shutdown release: once Cleanup has returned, none of its releases
\* having failed in transport, no locker whose Lock returned nil and whose
\* caller has not called Unlock since still has its lease at the service.
C12_ShutdownReleases ==
    (cleanup.pc = "done" /\ ~cleanup.failed)
    => \A h \in Lockers :
         Believes(h) => lease[resourceName[h]] # FreshUuid(h)

\* C16. Cleanup is best-effort over all entries: from the head of its loop
\* Cleanup either calls Release of the lock of an entry still to visit or, none
\* being left, returns nil, having called Release for every entry the registry
\* had when Cleanup started; and after a Release has returned, with an error
\* or without, the loop goes on with the entries that were left.
C16_CleanupBestEffort ==
    /\ [][(rcleanup.pc = "range" /\ rcleanup'.pc # "range")
           => \/ /\ rcleanup'.pc = "wait"
                 /\ \E r \in rcleanup.todo :
                      /\ rcleanup'.todo = rcleanup.todo \ {r}
                      /\ rcleanup'.tried = rcleanup.tried \cup {r}
              \/ /\ rcleanup'.pc = "done"
                 /\ rcleanup.todo = {}
                 /\ rcleanup.tried = rcleanup.start
                 /\ ret' = Return("Cleanup", NoCaller, NoResource, NoLocker,
                                  Cardinality(rcleanup.start), Nil)]_vars
    /\ [][(rcleanup.pc = "released" /\ rcleanup'.pc # "released")
           => (rcleanup'.pc = "range" /\ rcleanup'.todo = rcleanup.todo)]_vars

\* The goroutine of locker h is in its loop: a request in flight, an answer in
\* hand, or asleep before the next request.
Polling(h) == gpc[h] \in {"lock", "resp", "sleep"}

\* C14. At most one acquire activity per resource: the goroutines of this
\* process that poll for one resource are never more than one.
C14_OnePollerPerResource ==
    \A r \in Resources :
        Cardinality({h \in Lockers : resourceName[h] = r /\ Polling(h)}) <= 1

\* S3.Lock of caller c returns in this step, its context not done.
ReturnsUncancelled(c) == pc[c] = "Lock" /\ pc'[c] = "idle" /\ ctx[c] = "live"

\* C17. Acquire errors end the polling and are returned: after an attempt that
\* gave an error the goroutine goes to its send with that error and sends no
\* other request; a Lock whose context is not done returns what the goroutine
\* sends, and can return as soon as the goroutine is at its send; after an
\* answer "not obtained" the goroutine sleeps and then polls again, so that a
\* Lock whose context is not done returns an error of an attempt or, with a
\* granted locker, nil.
C17_AcquireErrorsEndPolling ==
    /\ [][\A h \in Lockers :
            (gpc[h] = "resp" /\ gresp[h].err # Nil)
            => (\/ gpc'[h] = "resp"
                \/ gpc'[h] = "send" /\ gresp'[h].err = gresp[h].err)]_vars
    /\ [][\A h \in Lockers :
            gpc[h] \in {"send", "done"} => gpc'[h] \in {"send", "done"}]_vars
    /\ [][\A h \in Lockers :
            (gpc[h] = "resp" /\ gresp[h].err = Nil /\ ~gresp[h].obtained)
            => gpc'[h] \in {"resp", "sleep"}]_vars
    /\ [][\A h \in Lockers :
            gpc[h] = "sleep" => gpc'[h] \in {"sleep", "lock"}]_vars
    /\ [][\A c \in Callers :
            ReturnsUncancelled(c)
            => (/\ gpc[lock[c]] = "send"
                /\ ret'.op = "Lock" /\ ret'.caller = c
                /\ ret'.err = gresp[lock[c]].err
                /\ \/ ret'.err \in ObtainErrors
                   \/ ret'.err = Nil /\ lock[c] \in granted)]_vars
    /\ [](\A c \in Callers :
            (pc[c] = "Lock" /\ gpc[lock[c]] = "send") => ENABLED LockSelectChan(c))

\* A Lock on a resource the owner outside holds has returned the error of an
\* attempt; its goroutine has exited and the service has granted it nothing.
C17_Witness ==
    /\ ret.op = "Lock"
    /\ ret.err \in ObtainErrors
    /\ gpc[ret.locker] = "done"
    /\ ret.locker \notin granted
    /\ lease[ret.key] = ExtToken

\* C19. A Lock that returned an error never owns the lease: while the goroutine
\* of a Lock that returned the context's error is still there, the service
\* records no lease with the token of a grant to it.  (A Lock that returned an
\* error of an attempt has a goroutine that has exited without a grant.)
C19_FailedLockNeverOwns ==
    \A h \in Lockers :
        Abandoned(h) => lease[resourceName[h]] # FreshUuid(h)

\* C15. Registry access is race-free: two callers working on different
\* resource names are never inside the map s3.FASMSLocks at once with one of
\* them writing it.
C15_RegistryRaceFree ==
    \A c1 \in Callers, c2 \in Callers :
        (c1 # c2 /\ key[c1] # key[c2])
        => ~(InMapWrite(c1) /\ (InMapWrite(c2) \/ InMapRead(c2)))

\* This step belongs to a Lock or an Unlock of resource r: the call's own
\* steps and those of the goroutine it started.
StepOfCallOn(r) ==
    \/ \E c \in Callers :
         /\ key[c] = r \/ key'[c] = r
         /\ pc'[c] # pc[c] \/ upc'[c] # upc[c]
    \/ \E h \in Lockers : resourceName'[h] = r /\ gpc'[h] # gpc[h]
    \/ ret'.op = "Unlock" /\ ret'.key = r

\* C18. Independence of resources: a step of a Lock or an Unlock of one
\* resource leaves the registry entry and the lease of every other resource as
\* they are; an acquire request is answered "obtained" exactly when its own
\* resource has no lease, whatever is held otherwise, and the answer and the
\* call of Lock are never held up.
C18_ResourcesIndependent ==
    /\ [][\A r1 \in Resources, r2 \in Resources :
            (r1 # r2 /\ StepOfCallOn(r1))
            => (/\ FASMSLocks'[r2] = FASMSLocks[r2]
                /\ lease'[r2] = lease[r2])]_vars
    /\ [][\A h \in Lockers :
            (gpc[h] = "lock" /\ gpc'[h] = "resp" /\ gresp'[h].err = Nil)
            => (gresp'[h].obtained <=> lease[resourceName[h]] = NoLease)]_vars
    /\ [](\A h \in Lockers :
            (gpc[h] = "lock" /\ UrlParses(FASMSEndpoint))
            => ENABLED ServeObtain(h))
    /\ [](\A c \in Callers, r \in Resources :
            (pc[c] = "idle" /\ nextLocker <= MaxLockers)
            => ENABLED S3Lock(c, r))

\* A Lock of one resource has returned nil while another caller holds the
\* other resource under a live lease, entry in the registry.
C18_Witness ==
    \E h1 \in Lockers, h2 \in Lockers :
        /\ ret.op = "Lock" /\ ret.err = Nil /\ ret.locker = h1
        /\ resourceName[h2] # resourceName[h1]
        /\ resourceName[h2] # NoResource
        /\ Believes(h2)
        /\ lease[resourceName[h2]] = FreshUuid(h2)
        /\ FASMSLocks[resourceName[h2]] = h2
        /\ lease[resourceName[h1]] = FreshUuid(h1)

====
